---- MODULE Spec2Model ----
(***************************************************************************)
(* A model of the books service: the request validator, the BookStore over *)
(* one SQLite table, and the HTTP handlers that compose them.              *)
(*                                                                         *)
(* The store is the table `books` (a set of rows) and the AUTOINCREMENT    *)
(* counter of sqlite_sequence.  The pool holds one connection, so each     *)
(* store call is one atomic step.  A handler that makes one store call is  *)
(* one action; PUT /books/{id} makes three (Get, UPDATE, re-read) and is   *)
(* three actions, so that other requests interleave between them.  The     *)
(* process can stop and start again on the same database file.             *)
(*                                                                         *)
(* Besides the service (Spec) there are three smaller runs: the validator  *)
(* on its own (SpecValidate), the BookStore methods called directly on a   *)
(* migrated database (SpecStore), and goroutines sharing the connection    *)
(* pool (SpecPool), which is where one store call at a time comes from.    *)
(***************************************************************************)
EXTENDS Integers, Sequences, FiniteSets, TLC

VARIABLES
    phase,        \* position of main(): "open", "migrated", "serving"
    tableExists,  \* the books table has been created
    table,        \* rows of the books table
    seq,          \* sqlite_sequence value of books: the largest id handed out
    puts,         \* the PUT requests in flight, one slot per goroutine
    nstart,       \* number of requests received so far
    nw,           \* number of store writes performed so far
    prev,         \* the exchange completed before cur
    cur,          \* the most recently completed exchange (request + response)
    vbr,          \* validator run: the request under validation
    verrs,        \* validator run: [done, errors], the map returned once done
    seeded,       \* what SeedIfEmpty did at this start: "not run", "inserted", "skipped"
    call,         \* store run: the last BookStore call and what it returned
    gos           \* pool run: each goroutine's store operation and position

vars == <<phase, tableExists, table, seq, puts, nstart, nw, prev, cur, vbr, verrs,
          seeded, call, gos>>

-----------------------------------------------------------------------------
(* Bounds *)

\* number of goroutines that can be inside putBookHandler at once
NumProcs == 2
\* number of requests the server receives in one run
MaxReqs == 2
\* validator runs draw year from -MaxYear .. MaxYear
MaxYear == 3
\* store runs insert at most MaxRows rows and ask for ids -1 .. MaxRows + 1
MaxRows == 3

Procs == 1 .. NumProcs

-----------------------------------------------------------------------------
(* Book entity and JSON values *)

Book(id, t, a, y) == [ID |-> id, Title |-> t, Author |-> a, Year |-> y]

\* the zero value of data.Book
ZeroBook == Book(0, "", "", 0)

FullBookRequest(t, a, y) == [Title |-> t, Author |-> a, Year |-> y]

JStr(s) == [t |-> "str", s |-> s, n |-> 0]
JNum(n) == [t |-> "num", s |-> "", n |-> n]
JNull == [t |-> "null", s |-> "", n |-> 0]
\* a JSON array of objects
JArr(a) == [t |-> "arr", s |-> "", n |-> 0, a |-> a]

\* m with key k set to v (Go: m[k] = v)
Put(m, k, v) == [x \in (DOMAIN m) \cup {k} |-> IF x = k THEN v ELSE m[x]]

EmptyMap == <<>>

\* json.Marshal of a data.Book: id and title always; author omitted when
\* empty; the year field carries the tag ",omitempty", so its key is the Go
\* field name "Year" and it is omitted when zero.
MarshalBook(b) ==
    LET m0 == Put(Put(EmptyMap, "id", JNum(b.ID)), "title", JStr(b.Title))
        m1 == IF b.Author # "" THEN Put(m0, "author", JStr(b.Author)) ELSE m0
        m2 == IF b.Year # 0 THEN Put(m1, "Year", JNum(b.Year)) ELSE m1
    IN  m2

\* json.Decode of a response body into a data.Book, as the tests do it:
\* absent keys leave the zero value.
UnmarshalBook(m) ==
    Book(IF "id" \in DOMAIN m THEN m["id"].n ELSE 0,
         IF "title" \in DOMAIN m THEN m["title"].s ELSE "",
         IF "author" \in DOMAIN m THEN m["author"].s ELSE "",
         IF "Year" \in DOMAIN m THEN m["Year"].n ELSE 0)

\* a Go slice of books: nil until the first append
NilSlice == [nil |-> TRUE, elems |-> <<>>]
AppendBook(s, b) == [nil |-> FALSE, elems |-> Append(s.elems, b)]

\* json.Marshal of bookResponse{Books: books}: a nil slice encodes as null
MarshalBookResponse(books) ==
    Put(EmptyMap, "books",
        IF books.nil THEN JNull
        ELSE JArr([i \in 1 .. Len(books.elems) |-> MarshalBook(books.elems[i])]))

MarshalErrors(errs) ==
    Put(EmptyMap, "errors", [k \in DOMAIN errs |-> JStr(errs[k])])

version == "1.0.0"

MarshalHealth ==
    Put(Put(EmptyMap, "status", JStr("ok")), "version", JStr(version))

-----------------------------------------------------------------------------
(* Responses *)

writeJSON_NoContentType(status, b) ==
    [status |-> status, ctype |-> "", body |-> b]

writeJSON(status, b) ==
    [status |-> status, ctype |-> "application/json", body |-> b]

\* http.Error / http.NotFound of net/http: a plain-text body
httpError(text, status) ==
    [status |-> status, ctype |-> "text/plain; charset=utf-8", body |-> text]

\* no response written yet
NoResponse == [status |-> 0, ctype |-> "", body |-> ""]

NotFound == httpError("404 page not found\n", 404)
BadRequest == httpError("Bad Request\n", 400)
InternalServerError == httpError("Internal Server Error\n", 500)

-----------------------------------------------------------------------------
(* Path parameter: strconv.ParseInt(idString, 10, 64) *)

\* A path value is a sequence of one-character strings.
DigitVal ==
    ("0" :> 0) @@ ("1" :> 1) @@ ("2" :> 2) @@ ("3" :> 3) @@ ("4" :> 4) @@
    ("5" :> 5) @@ ("6" :> 6) @@ ("7" :> 7) @@ ("8" :> 8) @@ ("9" :> 9)

\* the decimal digits of 1<<63, the cutoff of a 64-bit signed parse
Cutoff == <<9, 2, 2, 3, 3, 7, 2, 0, 3, 6, 8, 5, 4, 7, 7, 5, 8, 0, 8>>

RECURSIVE StripZeros(_)
StripZeros(ds) ==
    IF ds # <<>> /\ ds[1] = 0 THEN StripZeros(Tail(ds)) ELSE ds

\* a > b, for digit sequences without leading zeros
DigitsGreater(a, b) ==
    IF Len(a) # Len(b) THEN Len(a) > Len(b)
    ELSE \E i \in 1 .. Len(a) :
            /\ a[i] > b[i]
            /\ \A j \in 1 .. (i - 1) : a[j] = b[j]

RECURSIVE DigitsValue(_)
DigitsValue(ds) ==
    IF ds = <<>> THEN 0
    ELSE 10 * DigitsValue(SubSeq(ds, 1, Len(ds) - 1)) + ds[Len(ds)]

\* [err, val]: err for an empty string, a lone sign, a non-digit, or a
\* magnitude out of the int64 range; otherwise the signed value.
ParseInt(s) ==
    LET signed == s # <<>> /\ s[1] \in {"+", "-"}
        neg    == s # <<>> /\ s[1] = "-"
        body   == IF signed THEN Tail(s) ELSE s
        syntax == body = <<>> \/ \E i \in 1 .. Len(body) : body[i] \notin DOMAIN DigitVal
        mag    == StripZeros([i \in 1 .. Len(body) |-> DigitVal[body[i]]])
        range  == IF neg THEN DigitsGreater(mag, Cutoff)
                  ELSE mag = Cutoff \/ DigitsGreater(mag, Cutoff)
    IN  IF syntax \/ range THEN [err |-> TRUE, val |-> 0]
        ELSE [err |-> FALSE,
              val |-> IF neg THEN 0 - DigitsValue(mag) ELSE DigitsValue(mag)]

-----------------------------------------------------------------------------
(* Request body: json.NewDecoder(r.Body).Decode(&br) *)

\* A request body is [kind, obj]: kind "object" with obj a map from key to
\* JSON value, or kind "malformed" (text that is no JSON value, such as `{`).
Body(kind, obj) == [kind |-> kind, obj |-> obj]

\* [err, br]: a malformed body fails; in an object, a string-typed field
\* takes a JSON string, the int field a JSON integer, null leaves the zero
\* value, any other type fails; keys that name no field are ignored.
Decode(body) ==
    LET o == body.obj
        has(k) == k \in DOMAIN o /\ o[k].t # "null"
        badStr(k) == has(k) /\ o[k].t # "str"
        badInt(k) == has(k) /\ o[k].t # "num"
        str(k) == IF has(k) /\ o[k].t = "str" THEN o[k].s ELSE ""
        int(k) == IF has(k) /\ o[k].t = "num" THEN o[k].n ELSE 0
    IN  IF body.kind # "object"
        THEN [err |-> TRUE, br |-> FullBookRequest("", "", 0)]
        ELSE [err |-> badStr("title") \/ badStr("author") \/ badInt("year"),
              br  |-> FullBookRequest(str("title"), str("author"), int("year"))]

-----------------------------------------------------------------------------
(* Validator *)

ValidateFullBookRequest_YearOffByOne(br) ==
    LET e1 == IF br.Title = "" THEN Put(EmptyMap, "title", "title is required") ELSE EmptyMap
        e2 == IF br.Author = "" THEN Put(e1, "author", "author is required") ELSE e1
        e3 == IF br.Year < 0 THEN Put(e2, "year", "year must be a positive integer") ELSE e2
    IN  e3

ValidateFullBookRequest_SharedKey(br) ==
    LET e1 == IF br.Title = "" THEN Put(EmptyMap, "title", "title is required") ELSE EmptyMap
        e2 == IF br.Author = "" THEN Put(e1, "title", "author is required") ELSE e1
        e3 == IF br.Year < 1 THEN Put(e2, "year", "year must be a positive integer") ELSE e2
    IN  e3

ValidateFullBookRequest(br) ==
    LET e1 == IF br.Title = "" THEN Put(EmptyMap, "title", "title is required") ELSE EmptyMap
        e2 == IF br.Author = "" THEN Put(e1, "author", "author is required") ELSE e1
        e3 == IF br.Year < 1 THEN Put(e2, "year", "year must be a positive integer") ELSE e2
    IN  e3

-----------------------------------------------------------------------------
(* BookStore: each operation is one statement on the single connection.    *)
(* oc is the outcome of the statement: "ok", or "fail" for a driver error  *)
(* or an expired 3-second deadline, which leaves the table as it was.      *)

Outcomes == {"ok", "fail"}

RECURSIVE OrderById_Desc(_)
OrderById_Desc(rows) ==
    IF rows = {} THEN NilSlice
    ELSE LET first == CHOOSE r \in rows : \A q \in rows : r.ID <= q.ID
         IN  AppendBook(OrderById_Desc(rows \ {first}), first)

\* the rows in ascending order of id (ORDER BY id), appended one by one
RECURSIVE OrderById(_)
OrderById(rows) ==
    IF rows = {} THEN NilSlice
    ELSE LET last == CHOOSE r \in rows : \A q \in rows : q.ID <= r.ID
         IN  AppendBook(OrderById(rows \ {last}), last)

\* SELECT id, title, author, year FROM books ORDER BY id
GetAll(tb, oc) ==
    IF oc = "fail" THEN [err |-> "error", books |-> NilSlice]
    ELSE [err |-> "nil", books |-> OrderById(tb)]

Get_NoRowsAsZeroBook(tb, id, oc) ==
    IF id < 1 THEN [err |-> "ErrNoRows", book |-> ZeroBook, queried |-> FALSE]
    ELSE IF oc = "fail" THEN [err |-> "error", book |-> ZeroBook, queried |-> TRUE]
    ELSE LET rows == {r \in tb : r.ID = id}
         IN  IF rows = {} THEN [err |-> "nil", book |-> ZeroBook, queried |-> TRUE]
             ELSE [err |-> "nil", book |-> CHOOSE r \in rows : TRUE, queried |-> TRUE]

Get_NoShortCircuit(tb, id, oc) ==
    IF oc = "fail" THEN [err |-> "error", book |-> ZeroBook, queried |-> TRUE]
    ELSE LET rows == {r \in tb : r.ID = id}
         IN  IF rows = {} THEN [err |-> "ErrNoRows", book |-> ZeroBook, queried |-> TRUE]
             ELSE [err |-> "nil", book |-> CHOOSE r \in rows : TRUE, queried |-> TRUE]

\* SELECT ... WHERE id = ?; id < 1 is answered without a query
Get(tb, id, oc) ==
    IF id < 1 THEN [err |-> "ErrNoRows", book |-> ZeroBook, queried |-> FALSE]
    ELSE IF oc = "fail" THEN [err |-> "error", book |-> ZeroBook, queried |-> TRUE]
    ELSE LET rows == {r \in tb : r.ID = id}
         IN  IF rows = {} THEN [err |-> "ErrNoRows", book |-> ZeroBook, queried |-> TRUE]
             ELSE [err |-> "nil", book |-> CHOOSE r \in rows : TRUE, queried |-> TRUE]

Insert_NoId(tb, sq, book, oc) ==
    IF oc = "fail"
    THEN [err |-> "error", book |-> ZeroBook, table |-> tb, seq |-> sq]
    ELSE LET id == sq + 1
             saved == Book(id, book.Title, book.Author, book.Year)
         IN  [err |-> "nil", book |-> book, table |-> tb \cup {saved}, seq |-> id]

Insert_ErrorAfterWrite(tb, sq, book, oc) ==
    LET id == sq + 1
        saved == Book(id, book.Title, book.Author, book.Year)
    IN  IF oc = "fail"
        THEN [err |-> "error", book |-> ZeroBook, table |-> tb \cup {saved}, seq |-> id]
        ELSE [err |-> "nil", book |-> saved, table |-> tb \cup {saved}, seq |-> id]

Insert_SeqNotAdvanced(tb, sq, book, oc) ==
    IF oc = "fail"
    THEN [err |-> "error", book |-> ZeroBook, table |-> tb, seq |-> sq]
    ELSE LET id == sq + 1
             saved == Book(id, book.Title, book.Author, book.Year)
         IN  [err |-> "nil", book |-> saved, table |-> tb \cup {saved}, seq |-> sq]

\* INSERT INTO books (title, author, year) VALUES (?, ?, ?): the row takes
\* the AUTOINCREMENT id, one more than the largest id handed out so far;
\* LastInsertId is set on the book that is returned.
Insert(tb, sq, book, oc) ==
    IF oc = "fail"
    THEN [err |-> "error", book |-> ZeroBook, table |-> tb, seq |-> sq]
    ELSE LET id == sq + 1
             saved == Book(id, book.Title, book.Author, book.Year)
         IN  [err |-> "nil", book |-> saved, table |-> tb \cup {saved}, seq |-> id]

\* UPDATE books SET title = ?, author = ?, year = ? WHERE id = ?
\* (the first statement of Update; the second is the re-read, a Get)
UpdateExec(tb, book, oc) ==
    IF oc = "fail" THEN [err |-> "error", table |-> tb]
    ELSE [err |-> "nil",
          table |-> {IF r.ID = book.ID
                     THEN Book(r.ID, book.Title, book.Author, book.Year)
                     ELSE r : r \in tb}]

-----------------------------------------------------------------------------
(* Startup: Migrate and SeedIfEmpty *)

\* CREATE TABLE IF NOT EXISTS books (...)
Migrate(exists) == TRUE

SeedRows ==
    <<FullBookRequest("The Go Programming Language", "Alan Donovan", 2015),
      FullBookRequest("Designing Data-Intensive Applications", "Martin Kleppmann", 2017)>>

SeedIfEmpty_Always(tb, sq) ==
    [table |-> tb \cup {Book(sq + i, SeedRows[i].Title, SeedRows[i].Author,
                             SeedRows[i].Year) : i \in 1 .. Len(SeedRows)},
     seq   |-> sq + Len(SeedRows)]

SeedIfEmpty_FromZero(tb, sq) ==
    IF Cardinality(tb) > 0 THEN [table |-> tb, seq |-> sq]
    ELSE [table |-> tb \cup {Book(sq + i - 1, SeedRows[i].Title, SeedRows[i].Author,
                                  SeedRows[i].Year) : i \in 1 .. Len(SeedRows)},
          seq   |-> sq + Len(SeedRows) - 1]

\* SELECT COUNT(*); when it is > 0 nothing is written, otherwise one INSERT
\* statement adds the demo rows, which take consecutive AUTOINCREMENT ids.
SeedIfEmpty(tb, sq) ==
    IF Cardinality(tb) > 0 THEN [table |-> tb, seq |-> sq]
    ELSE [table |-> tb \cup {Book(sq + i, SeedRows[i].Title, SeedRows[i].Author,
                                  SeedRows[i].Year) : i \in 1 .. Len(SeedRows)},
          seq   |-> sq + Len(SeedRows)]

-----------------------------------------------------------------------------
(* Handlers.  Each yields the response, the store after it, whether a      *)
(* store call of the handler failed, and the store calls it made in order. *)

Result(resp, tb, sq, faults, calls) ==
    [resp |-> resp, table |-> tb, seq |-> sq, faults |-> faults, calls |-> calls]

NoCalls == <<>>

storeErrorReply_Always500(err) == InternalServerError

\* the switch on a store error: no-such-row is 404, anything else 500
storeErrorReply(err) ==
    IF err = "ErrNoRows" THEN NotFound ELSE InternalServerError

ReplaceFields_KeepsTitle(book, br) ==
    Book(book.ID, book.Title, br.Author, br.Year)

ReplaceFields_KeepsAuthor(book, br) ==
    Book(book.ID, br.Title, book.Author, br.Year)

ReplaceFields_YearAdds(book, br) ==
    Book(book.ID, br.Title, br.Author, book.Year + br.Year)

\* putBookHandler, step 5: the three request fields overwrite the book's
ReplaceFields(book, br) ==
    Book(book.ID, br.Title, br.Author, br.Year)

healthcheckHandler == writeJSON(200, MarshalHealth)

listBooksHandler(tb, sq, oc) ==
    LET r == GetAll(tb, oc)
    IN  IF r.err # "nil" THEN Result(InternalServerError, tb, sq, TRUE, <<"GetAll">>)
        ELSE Result(writeJSON(200, MarshalBookResponse(r.books)), tb, sq, FALSE,
                    <<"GetAll">>)

showBookHandler(tb, sq, path, oc) ==
    LET id == ParseInt(path)
    IN  IF id.err \/ id.val < 1 THEN Result(NotFound, tb, sq, FALSE, NoCalls)
        ELSE LET r == Get(tb, id.val, oc)
                 calls == IF r.queried THEN <<"Get">> ELSE NoCalls
             IN  IF r.err # "nil"
                 THEN Result(storeErrorReply(r.err), tb, sq, r.err = "error", calls)
                 ELSE Result(writeJSON(200, MarshalBook(r.book)), tb, sq, FALSE, calls)

createBookHandler_Errors400(tb, sq, body, oc) ==
    LET d == Decode(body)
        validationErrors == ValidateFullBookRequest(d.br)
    IN  IF d.err THEN Result(BadRequest, tb, sq, FALSE, NoCalls)
        ELSE IF Cardinality(DOMAIN validationErrors) > 0
        THEN Result(writeJSON(400, MarshalErrors(validationErrors)), tb, sq, FALSE,
                    NoCalls)
        ELSE LET book == Book(0, d.br.Title, d.br.Author, d.br.Year)
                 r == Insert(tb, sq, book, oc)
             IN  IF r.err # "nil"
                 THEN Result(InternalServerError, r.table, r.seq, TRUE, <<"Insert">>)
                 ELSE Result(writeJSON(201, MarshalBook(r.book)), r.table, r.seq,
                             FALSE, <<"Insert">>)

createBookHandler_IgnoresDecodeError(tb, sq, body, oc) ==
    LET d == Decode(body)
        validationErrors == ValidateFullBookRequest(d.br)
    IN  IF Cardinality(DOMAIN validationErrors) > 0
        THEN Result(writeJSON(422, MarshalErrors(validationErrors)), tb, sq, FALSE,
                    NoCalls)
        ELSE LET book == Book(0, d.br.Title, d.br.Author, d.br.Year)
                 r == Insert(tb, sq, book, oc)
             IN  IF r.err # "nil"
                 THEN Result(InternalServerError, r.table, r.seq, TRUE, <<"Insert">>)
                 ELSE Result(writeJSON(201, MarshalBook(r.book)), r.table, r.seq,
                             FALSE, <<"Insert">>)

createBookHandler_RetriesInsert(tb, sq, body, oc) ==
    LET d == Decode(body)
        validationErrors == ValidateFullBookRequest(d.br)
    IN  IF d.err THEN Result(BadRequest, tb, sq, FALSE, NoCalls)
        ELSE IF Cardinality(DOMAIN validationErrors) > 0
        THEN Result(writeJSON(422, MarshalErrors(validationErrors)), tb, sq, FALSE,
                    NoCalls)
        ELSE LET book == Book(0, d.br.Title, d.br.Author, d.br.Year)
                 r == Insert(tb, sq, book, oc)
                 again == Insert(tb, sq, book, "ok")
             IN  IF r.err # "nil"
                 THEN Result(writeJSON(201, MarshalBook(again.book)), again.table,
                             again.seq, TRUE, <<"Insert", "Insert">>)
                 ELSE Result(writeJSON(201, MarshalBook(r.book)), r.table, r.seq,
                             FALSE, <<"Insert">>)

createBookHandler(tb, sq, body, oc) ==
    LET d == Decode(body)
        validationErrors == ValidateFullBookRequest(d.br)
    IN  IF d.err THEN Result(BadRequest, tb, sq, FALSE, NoCalls)
        ELSE IF Cardinality(DOMAIN validationErrors) > 0
        THEN Result(writeJSON(422, MarshalErrors(validationErrors)), tb, sq, FALSE,
                    NoCalls)
        ELSE LET book == Book(0, d.br.Title, d.br.Author, d.br.Year)
                 r == Insert(tb, sq, book, oc)
             IN  IF r.err # "nil"
                 THEN Result(InternalServerError, r.table, r.seq, TRUE, <<"Insert">>)
                 ELSE Result(writeJSON(201, MarshalBook(r.book)), r.table, r.seq,
                             FALSE, <<"Insert">>)

putBookHandlerLookup_GetFirst(tb, path, body, oc) ==
    LET id == ParseInt(path)
        d == Decode(body)
        validationErrors == ValidateFullBookRequest(d.br)
        stop(resp, faults, calls) ==
            [done |-> TRUE, resp |-> resp, book |-> ZeroBook, faults |-> faults,
             calls |-> calls]
    IN  IF id.err \/ id.val < 1 THEN stop(NotFound, FALSE, NoCalls)
        ELSE LET r == Get(tb, id.val, oc)
                 calls == IF r.queried THEN <<"Get">> ELSE NoCalls
             IN  IF r.err # "nil"
                 THEN stop(storeErrorReply(r.err), r.err = "error", calls)
                 ELSE IF d.err THEN stop(BadRequest, FALSE, calls)
                 ELSE IF Cardinality(DOMAIN validationErrors) > 0
                 THEN stop(writeJSON(422, MarshalErrors(validationErrors)), FALSE,
                           calls)
                 ELSE [done |-> FALSE, resp |-> NoResponse,
                       book |-> ReplaceFields(r.book, d.br), faults |-> FALSE,
                       calls |-> calls]

\* putBookHandler, steps 1 to 5: parse the id, decode, validate, Get the
\* row and replace its three fields.  [done, resp, book, faults]: done with
\* a response, or not done with the book to hand to Update.
putBookHandlerLookup(tb, path, body, oc) ==
    LET id == ParseInt(path)
        d == Decode(body)
        validationErrors == ValidateFullBookRequest(d.br)
        stop(resp, faults, calls) ==
            [done |-> TRUE, resp |-> resp, book |-> ZeroBook, faults |-> faults,
             calls |-> calls]
    IN  IF id.err \/ id.val < 1 THEN stop(NotFound, FALSE, NoCalls)
        ELSE IF d.err THEN stop(BadRequest, FALSE, NoCalls)
        ELSE IF Cardinality(DOMAIN validationErrors) > 0
        THEN stop(writeJSON(422, MarshalErrors(validationErrors)), FALSE, NoCalls)
        ELSE LET r == Get(tb, id.val, oc)
                 calls == IF r.queried THEN <<"Get">> ELSE NoCalls
             IN  IF r.err # "nil"
                 THEN stop(storeErrorReply(r.err), r.err = "error", calls)
                 ELSE [done |-> FALSE, resp |-> NoResponse,
                       book |-> ReplaceFields(r.book, d.br), faults |-> FALSE,
                       calls |-> calls]

\* putBookHandler, steps 6 and 7: the answer to what Update returned
putBookHandlerReply(err, updatedBook) ==
    IF err # "nil" THEN storeErrorReply(err)
    ELSE writeJSON(200, MarshalBook(updatedBook))

-----------------------------------------------------------------------------
(* Requests the clients send *)

NoPath == <<>>
NoBody == Body("none", EmptyMap)

\* /books/{id} values: an existing id, an id that exists once a book has
\* been created, zero, a negative, a non-number, and 1<<63
PathIds ==
    { <<"1">>, <<"3">>, <<"0">>, <<"-", "1">>, <<"a", "b", "c">>,
      <<"9", "2", "2", "3", "3", "7", "2", "0", "3", "6", "8", "5", "4", "7",
        "7", "5", "8", "0", "8">> }

ValidA == Put(Put(Put(EmptyMap, "title", JStr("Testing Go")),
                  "author", JStr("Gary Clarke")), "year", JNum(2030))
\* a valid payload that also carries an id, which is no field of the DTO
ValidB == Put(Put(Put(Put(EmptyMap, "title", JStr("The Go Workshop")),
                      "author", JStr("Delio D'Anna")), "year", JNum(1)),
              "id", JNum(1))

Bodies ==
    { Body("malformed", EmptyMap),                  \* {
      Body("object", EmptyMap),                     \* {}
      Body("object", ValidA),
      Body("object", ValidB),
      Body("object", Put(ValidA, "year", JNum(0))), \* one rule violated
      Body("object", Put(ValidA, "year", JStr("2030"))) } \* wrong type

-----------------------------------------------------------------------------
(* State *)

\* A completed exchange: the request, the response, the table when the
\* response was produced, how many exchanges had completed when the request
\* began (begun) and with it (idx), the store writes made by then (nw),
\* whether a store call of the request failed, whether no write fell
\* between the request's UPDATE and its re-read (PUT only), and the
\* BookStore calls the request made, in order.
Exchange(method, path, body, resp, tb, begun, idx, nwv, faults, quiet, calls) ==
    [method |-> method, path |-> path, body |-> body, resp |-> resp,
     table |-> tb, begun |-> begun, idx |-> idx, nw |-> nwv,
     faults |-> faults, quiet |-> quiet, calls |-> calls]

NoExchange ==
    Exchange("none", NoPath, NoBody, NoResponse, {}, 0, 0, 0, FALSE, TRUE, NoCalls)

IdleSlot ==
    [pc |-> "idle", path |-> NoPath, body |-> NoBody, book |-> ZeroBook,
     begun |-> 0, nwu |-> 0]

NotRun == [done |-> FALSE, errors |-> EmptyMap]

\* the ids of the rows of a table
Ids(tb) == {r.ID : r \in tb}

\* A BookStore call made directly on the store: the method, its arguments
\* (id, arg), the outcome of its statement, the table it ran on, and what
\* it returned (err, book, books) and whether it sent a statement at all.
StoreCall(op, id, arg, before, err, book, books, queried) ==
    [op |-> op, id |-> id, arg |-> arg, before |-> before, err |-> err,
     book |-> book, books |-> books, queried |-> queried]

NoCall == StoreCall("none", 0, ZeroBook, {}, "nil", ZeroBook, NilSlice, FALSE)

\* A goroutine of the pool run: the store method it calls (op, arg), where
\* it is (pc: "idle", "waiting" for a connection, "running" its statement,
\* "fetched" its result, "done"), the ids in the table when it made the call
\* (began), whether the call failed (err), and the ids the call returned
\* (saw): those of the listed rows for GetAll, the new id for Insert.
Goroutine(pc, op, arg, began, err, saw) ==
    [pc |-> pc, op |-> op, arg |-> arg, began |-> began, err |-> err, saw |-> saw]

IdleGo == Goroutine("idle", "none", ZeroBook, {}, "nil", {})

InFlight == {p \in Procs : puts[p].pc # "idle"}

\* number of exchanges completed so far
NDone == nstart - Cardinality(InFlight)

Init ==
    /\ phase = "open"
    /\ tableExists = FALSE
    /\ table = {}
    /\ seq = 0
    /\ puts = [p \in Procs |-> IdleSlot]
    /\ nstart = 0
    /\ nw = 0
    /\ prev = NoExchange
    /\ cur = NoExchange
    /\ vbr = FullBookRequest("", "", 0)
    /\ verrs = NotRun
    /\ seeded = "not run"
    /\ call = NoCall
    /\ gos = [g \in Procs |-> IdleGo]

-----------------------------------------------------------------------------
(* Actions *)

DoMigrate ==
    /\ phase = "open"
    /\ tableExists' = Migrate(tableExists)
    /\ phase' = "migrated"
    /\ UNCHANGED <<table, seq, puts, nstart, nw, prev, cur, vbr, verrs, seeded, call, gos>>

\* The process stops and is started again on the same database file: the
\* requests in flight are lost, the store keeps what was written.
Restart ==
    /\ phase # "open"
    /\ phase' = "open"
    /\ seeded' = "not run"
    /\ puts' = [p \in Procs |-> IdleSlot]
    /\ UNCHANGED <<tableExists, table, seq, nstart, nw, prev, cur, vbr, verrs, call, gos>>

DoSeedIfEmpty ==
    /\ phase = "migrated"
    /\ LET r == SeedIfEmpty(table, seq)
       IN  /\ table' = r.table
           /\ seq' = r.seq
    /\ phase' = "serving"
    /\ seeded' = IF table' = table THEN "skipped" ELSE "inserted"
    /\ UNCHANGED <<tableExists, puts, nstart, nw, prev, cur, vbr, verrs, call, gos>>

Receiving == phase = "serving" /\ nstart < MaxReqs

\* a handler that runs from request to response in one step
Atomic(method, path, body, r) ==
    /\ table' = r.table
    /\ seq' = r.seq
    /\ nw' = IF r.table # table THEN nw + 1 ELSE nw
    /\ nstart' = nstart + 1
    /\ prev' = cur
    /\ cur' = Exchange(method, path, body, r.resp, r.table, NDone, NDone + 1,
                       nw', r.faults, TRUE, r.calls)
    /\ UNCHANGED <<phase, tableExists, puts, vbr, verrs, seeded, call, gos>>

Healthz ==
    /\ Receiving
    /\ Atomic("GET /healthz", NoPath, NoBody,
              Result(healthcheckHandler, table, seq, FALSE, NoCalls))

ListBooks ==
    /\ Receiving
    /\ \E oc \in Outcomes :
          Atomic("GET /books", NoPath, NoBody, listBooksHandler(table, seq, oc))

ShowBook ==
    /\ Receiving
    /\ \E path \in PathIds, oc \in Outcomes :
          Atomic("GET /books/{id}", path, NoBody,
                 showBookHandler(table, seq, path, oc))

CreateBook ==
    /\ Receiving
    /\ \E body \in Bodies, oc \in Outcomes :
          Atomic("POST /books", NoPath, body,
                 createBookHandler(table, seq, body, oc))

\* PUT, first step: up to the Get.  It answers at once, or goes on to Update.
PutLookup(p) ==
    /\ Receiving
    /\ puts[p].pc = "idle"
    /\ \A q \in Procs : q < p => puts[q].pc # "idle"
    /\ \E path \in PathIds, body \in Bodies, oc \in Outcomes :
          LET r == putBookHandlerLookup(table, path, body, oc)
          IN  IF r.done
              THEN Atomic("PUT /books/{id}", path, body,
                          Result(r.resp, table, seq, r.faults, r.calls))
              ELSE /\ puts' = [puts EXCEPT ![p] =
                                  [pc |-> "update", path |-> path, body |-> body,
                                   book |-> r.book, begun |-> NDone, nwu |-> 0]]
                   /\ nstart' = nstart + 1
                   /\ UNCHANGED <<phase, tableExists, table, seq, nw, prev, cur,
                                  vbr, verrs, seeded, call, gos>>

\* the PUT in slot p answers resp
PutDone(p, resp, faults, quiet, calls) ==
    /\ puts' = [puts EXCEPT ![p] = IdleSlot]
    /\ prev' = cur
    /\ cur' = Exchange("PUT /books/{id}", puts[p].path, puts[p].body, resp,
                       table', puts[p].begun, NDone + 1, nw', faults, quiet, calls)

\* PUT, second step: the UPDATE statement of Update
PutUpdate(p) ==
    /\ puts[p].pc = "update"
    /\ \E oc \in Outcomes :
          LET r == UpdateExec(table, puts[p].book, oc)
          IN  IF r.err # "nil"
              THEN /\ table' = table
                   /\ nw' = nw
                   /\ PutDone(p, putBookHandlerReply(r.err, ZeroBook), TRUE, TRUE,
                              <<"Get", "Update">>)
              ELSE /\ table' = r.table
                   /\ nw' = nw + 1
                   /\ puts' = [puts EXCEPT ![p].pc = "refetch", ![p].nwu = nw + 1]
                   /\ UNCHANGED <<prev, cur>>
    /\ UNCHANGED <<phase, tableExists, seq, nstart, vbr, verrs, seeded, call, gos>>

\* PUT, third step: the re-read of Update, and the response
PutRefetch(p) ==
    /\ puts[p].pc = "refetch"
    /\ \E oc \in Outcomes :
          LET r == Get(table, puts[p].book.ID, oc)
          IN  /\ table' = table
              /\ nw' = nw
              /\ PutDone(p, putBookHandlerReply(r.err, r.book), r.err = "error",
                         nw = puts[p].nwu, <<"Get", "Update">>)
    /\ UNCHANGED <<phase, tableExists, seq, nstart, vbr, verrs, seeded, call, gos>>

Next ==
    \/ DoMigrate
    \/ DoSeedIfEmpty
    \/ Restart
    \/ Healthz
    \/ ListBooks
    \/ ShowBook
    \/ CreateBook
    \/ \E p \in Procs : PutLookup(p)
    \/ \E p \in Procs : PutUpdate(p)
    \/ \E p \in Procs : PutRefetch(p)

Spec == Init /\ [][Next]_vars

-----------------------------------------------------------------------------
(* The validator on its own: every request of a bounded set is validated.  *)

VTitles == {"", "Valid Book", "Testing Go"}
VAuthors == {"", "Valid Author", "Gary"}
VYears == (0 - MaxYear) .. MaxYear

InitValidate ==
    /\ phase = "open"
    /\ tableExists = FALSE
    /\ table = {}
    /\ seq = 0
    /\ puts = [p \in Procs |-> IdleSlot]
    /\ nstart = 0
    /\ nw = 0
    /\ prev = NoExchange
    /\ cur = NoExchange
    /\ vbr \in {FullBookRequest(t, a, y) : t \in VTitles, a \in VAuthors, y \in VYears}
    /\ verrs = NotRun
    /\ seeded = "not run"
    /\ call = NoCall
    /\ gos = [g \in Procs |-> IdleGo]

Validate ==
    /\ ~verrs.done
    /\ verrs' = [done |-> TRUE, errors |-> ValidateFullBookRequest(vbr)]
    /\ UNCHANGED <<phase, tableExists, table, seq, puts, nstart, nw, prev, cur, vbr,
                 seeded, call, gos>>

NextValidate == Validate

SpecValidate == InitValidate /\ [][NextValidate]_vars

-----------------------------------------------------------------------------
(* The BookStore on its own: a migrated database, seeded or not, on which  *)
(* the methods of BookStore are called directly and GET /books is served.  *)

StoreIds == (0 - 1) .. (MaxRows + 1)

StoreBooks ==
    {Book(0, "Testing Go", "Gary Clarke", 2030), Book(0, "The Go Workshop", "", 0)}

InitStore ==
    /\ phase = "migrated"
    /\ tableExists = TRUE
    /\ table = {}
    /\ seq = 0
    /\ puts = [p \in Procs |-> IdleSlot]
    /\ nstart = 0
    /\ nw = 0
    /\ prev = NoExchange
    /\ cur = NoExchange
    /\ vbr = FullBookRequest("", "", 0)
    /\ verrs = NotRun
    /\ seeded = "not run"
    /\ call = NoCall
    /\ gos = [g \in Procs |-> IdleGo]

StoreFrame == UNCHANGED <<phase, tableExists, puts, nstart, nw, prev, cur, vbr, verrs,
                          seeded, gos>>

StoreSeed ==
    /\ LET r == SeedIfEmpty(table, seq)
       IN  /\ table' = r.table
           /\ seq' = r.seq
    /\ call' = StoreCall("SeedIfEmpty", 0, ZeroBook, table, "nil", ZeroBook, NilSlice,
                         TRUE)
    /\ StoreFrame

StoreGetAll ==
    /\ \E oc \in Outcomes :
          LET r == GetAll(table, oc)
          IN  call' = StoreCall("GetAll", 0, ZeroBook, table, r.err, ZeroBook, r.books,
                                TRUE)
    /\ UNCHANGED <<table, seq>>
    /\ StoreFrame

StoreGet ==
    /\ \E id \in StoreIds, oc \in Outcomes :
          LET r == Get(table, id, oc)
          IN  call' = StoreCall("Get", id, ZeroBook, table, r.err, r.book, NilSlice,
                                r.queried)
    /\ UNCHANGED <<table, seq>>
    /\ StoreFrame

StoreInsert ==
    /\ seq < MaxRows
    /\ \E book \in StoreBooks, oc \in Outcomes :
          LET r == Insert(table, seq, book, oc)
          IN  /\ table' = r.table
              /\ seq' = r.seq
              /\ call' = StoreCall("Insert", 0, book, table, r.err, r.book, NilSlice,
                                   TRUE)
    /\ StoreFrame

StoreList ==
    /\ nstart < MaxReqs
    /\ \E oc \in Outcomes :
          Atomic("GET /books", NoPath, NoBody, listBooksHandler(table, seq, oc))
    /\ UNCHANGED call

NextStore ==
    \/ StoreSeed
    \/ StoreGetAll
    \/ StoreGet
    \/ StoreInsert
    \/ StoreList

SpecStore == InitStore /\ [][NextStore]_vars

-----------------------------------------------------------------------------
(* The connection pool: goroutines call GetAll and Insert at the same time *)
(* on a seeded store.  A call waits for a connection of the pool, runs its *)
(* statement on it, takes the result and gives the connection back.        *)

\* db.SetMaxOpenConns(1)
MaxOpenConns == 1

\* the goroutines that hold a connection of the pool
Holding == {g \in Procs : gos[g].pc \in {"running", "fetched"}}

CanOpen_NoCap(inUse) == TRUE

\* database/sql hands out a connection while fewer than the cap are in use
CanOpen(inUse) == inUse < MaxOpenConns

InitPool ==
    /\ phase = "serving"
    /\ tableExists = TRUE
    /\ table = SeedIfEmpty({}, 0).table
    /\ seq = SeedIfEmpty({}, 0).seq
    /\ puts = [p \in Procs |-> IdleSlot]
    /\ nstart = 0
    /\ nw = 0
    /\ prev = NoExchange
    /\ cur = NoExchange
    /\ vbr = FullBookRequest("", "", 0)
    /\ verrs = NotRun
    /\ seeded = "inserted"
    /\ call = NoCall
    /\ gos = [g \in Procs |-> IdleGo]

PoolFrame == UNCHANGED <<phase, tableExists, puts, prev, cur, vbr, verrs, seeded, call>>

\* goroutine g calls a BookStore method: QueryContext / ExecContext ask the
\* pool for a connection
PoolCall(g) ==
    /\ gos[g].pc \in {"idle", "done"}
    /\ nstart < MaxRows
    /\ nstart' = nstart + 1
    /\ \/ gos' = [gos EXCEPT ![g] =
                     Goroutine("waiting", "GetAll", ZeroBook, Ids(table), "nil", {})]
       \/ \E book \in StoreBooks :
             gos' = [gos EXCEPT ![g] =
                        Goroutine("waiting", "Insert", book, Ids(table), "nil", {})]
    /\ UNCHANGED <<table, seq, nw>>
    /\ PoolFrame

PoolAcquire(g) ==
    /\ gos[g].pc = "waiting"
    /\ CanOpen(Cardinality(Holding))
    /\ gos' = [gos EXCEPT ![g].pc = "running"]
    /\ UNCHANGED <<table, seq, nw, nstart>>
    /\ PoolFrame

\* the statement of the call runs on the connection
PoolRun(g) ==
    /\ gos[g].pc = "running"
    /\ \E oc \in Outcomes :
          IF gos[g].op = "GetAll"
          THEN LET r == GetAll(table, oc)
               IN  /\ gos' = [gos EXCEPT ![g].pc = "fetched", ![g].err = r.err,
                                         ![g].saw = {r.books.elems[i].ID :
                                                        i \in DOMAIN r.books.elems}]
                   /\ UNCHANGED <<table, seq, nw>>
          ELSE LET r == Insert(table, seq, gos[g].arg, oc)
               IN  /\ gos' = [gos EXCEPT ![g].pc = "fetched", ![g].err = r.err,
                                         ![g].saw = IF r.err = "nil" THEN {r.book.ID}
                                                    ELSE {}]
                   /\ table' = r.table
                   /\ seq' = r.seq
                   /\ nw' = IF r.err = "nil" THEN nw + 1 ELSE nw
    /\ UNCHANGED nstart
    /\ PoolFrame

\* rows.Close / the end of Exec: the connection goes back to the pool
PoolRelease(g) ==
    /\ gos[g].pc = "fetched"
    /\ gos' = [gos EXCEPT ![g].pc = "done"]
    /\ UNCHANGED <<table, seq, nw, nstart>>
    /\ PoolFrame

NextPool ==
    \/ \E g \in Procs : PoolCall(g)
    \/ \E g \in Procs : PoolAcquire(g)
    \/ \E g \in Procs : PoolRun(g)
    \/ \E g \in Procs : PoolRelease(g)

SpecPool == InitPool /\ [][NextPool]_vars

-----------------------------------------------------------------------------
(* Properties *)

\* the id a path value names, or 0 when it names none
PathId(path) == IF ParseInt(path).err THEN 0 ELSE ParseInt(path).val

\* the payload as the client wrote it: title, author and year of the object
PayloadValid(body) ==
    /\ body.kind = "object"
    /\ {"title", "author", "year"} \subseteq DOMAIN body.obj
    /\ body.obj["title"].t = "str" /\ body.obj["title"].s # ""
    /\ body.obj["author"].t = "str" /\ body.obj["author"].s # ""
    /\ body.obj["year"].t = "num" /\ body.obj["year"].n >= 1

\* book b carries the three fields of the payload
CarriesPayload(b, body) ==
    /\ b.Title = body.obj["title"].s
    /\ b.Author = body.obj["author"].s
    /\ b.Year = body.obj["year"].n

RowsWithId(tb, id) == {r \in tb : r.ID = id}

\* C1 (Insert round-trip): a POST /books answered 201 with Book B was sent a
\* valid payload and B carries its title, author and year; a GET /books/{B.id}
\* that follows it, with no store write in between and no store failure, is
\* answered 200 with a Book equal to B in id, title, author and year.
C1_InsertRoundTrip ==
    /\ (cur.method = "POST /books" /\ cur.resp.status = 201)
          => /\ PayloadValid(cur.body)
             /\ CarriesPayload(UnmarshalBook(cur.resp.body), cur.body)
    /\ ( /\ prev.method = "POST /books"
         /\ prev.resp.status = 201
         /\ cur.method = "GET /books/{id}"
         /\ ~ParseInt(cur.path).err
         /\ ParseInt(cur.path).val = UnmarshalBook(prev.resp.body).ID
         /\ cur.nw = prev.nw
         /\ ~cur.faults )
          => /\ cur.resp.status = 200
             /\ UnmarshalBook(cur.resp.body) = UnmarshalBook(prev.resp.body)

C1_Witness ==
    /\ prev.method = "POST /books"
    /\ prev.resp.status = 201
    /\ cur.method = "GET /books/{id}"
    /\ cur.resp.status = 200
    /\ cur.nw = prev.nw
    /\ UnmarshalBook(cur.resp.body).ID = 3
    /\ UnmarshalBook(cur.resp.body).Title = "Testing Go"

\* the three rules, stated on the request
RuleTitle(br) == br.Title # ""
RuleAuthor(br) == br.Author # ""
RuleYear(br) == br.Year >= 1

\* C2 (Validator completeness): the map ValidateFullBookRequest returns is
\* empty exactly when title is non-empty, author is non-empty and year >= 1.
C2_ValidatorCompleteness ==
    verrs.done =>
        ((DOMAIN verrs.errors = {}) <=>
            (RuleTitle(vbr) /\ RuleAuthor(vbr) /\ RuleYear(vbr)))

C2_Witness ==
    /\ verrs.done
    /\ DOMAIN verrs.errors = {}
    /\ vbr.Year = 1

\* C3 (Validator minimality): for a request that violates exactly one rule,
\* the keys of the returned map are exactly the violated field's name.
C3_ValidatorMinimality ==
    verrs.done =>
        /\ (~RuleTitle(vbr) /\ RuleAuthor(vbr) /\ RuleYear(vbr))
              => DOMAIN verrs.errors = {"title"}
        /\ (RuleTitle(vbr) /\ ~RuleAuthor(vbr) /\ RuleYear(vbr))
              => DOMAIN verrs.errors = {"author"}
        /\ (RuleTitle(vbr) /\ RuleAuthor(vbr) /\ ~RuleYear(vbr))
              => DOMAIN verrs.errors = {"year"}

C3_Witness ==
    /\ verrs.done
    /\ RuleTitle(vbr) /\ ~RuleAuthor(vbr) /\ RuleYear(vbr)
    /\ DOMAIN verrs.errors = {"author"}

AllThreeErrors ==
    Put(Put(Put(EmptyMap, "title", JStr("title is required")),
            "author", JStr("author is required")),
        "year", JStr("year must be a positive integer"))

\* C4: a POST /books whose body decodes and yields a non-empty validation
\* map is answered 422 with the body {"errors": M}, M being the validator's
\* map for that body; the body {} yields all three entries.
C4_Post422 ==
    cur.method = "POST /books" =>
        /\ ( /\ ~Decode(cur.body).err
             /\ DOMAIN ValidateFullBookRequest(Decode(cur.body).br) # {} )
              => /\ cur.resp.status = 422
                 /\ cur.resp.ctype = "application/json"
                 /\ DOMAIN cur.resp.body = {"errors"}
                 /\ cur.resp.body["errors"] =
                       [k \in DOMAIN ValidateFullBookRequest(Decode(cur.body).br) |->
                           JStr(ValidateFullBookRequest(Decode(cur.body).br)[k])]
        /\ cur.body = Body("object", EmptyMap)
              => /\ cur.resp.status = 422
                 /\ cur.resp.body = Put(EmptyMap, "errors", AllThreeErrors)

C4_Witness ==
    /\ cur.method = "POST /books"
    /\ cur.body = Body("object", EmptyMap)
    /\ cur.resp.status = 422

\* C5: a body that fails JSON decoding is answered 400, by POST /books and
\* by PUT /books/{id} with a parseable id >= 1; it is never answered 422.
C5_DecodeFailure400 ==
    ( /\ \/ cur.method = "POST /books"
         \/ cur.method = "PUT /books/{id}" /\ PathId(cur.path) >= 1
      /\ \/ cur.body.kind = "malformed"
         \/ Decode(cur.body).err )
        => cur.resp.status = 400

C5_Witness ==
    /\ cur.method = "PUT /books/{id}"
    /\ PathId(cur.path) >= 1
    /\ cur.body.kind = "malformed"
    /\ cur.resp.status = 400
    /\ prev.method = "POST /books"
    /\ prev.body.kind = "malformed"
    /\ prev.resp.status = 400

\* C6: GET /books/{id}: an id that does not parse as a signed 64-bit integer
\* or is < 1 gives 404; a parseable id >= 1 with no matching row gives 404;
\* a failed store call gives 500; a matching row gives 200 with that row's
\* Book as the body.
C6_ShowStatus ==
    cur.method = "GET /books/{id}" =>
        LET id == ParseInt(cur.path)
            rows == RowsWithId(cur.table, id.val)
        IN  /\ (id.err \/ id.val < 1) => cur.resp.status = 404
            /\ cur.path \in { <<"0">>, <<"-", "1">>, <<"a", "b", "c">> }
                  => cur.resp.status = 404
            /\ Len(cur.path) = Len(Cutoff) => cur.resp.status = 404
            /\ (~id.err /\ id.val >= 1 /\ ~cur.faults /\ rows = {})
                  => cur.resp.status = 404
            /\ cur.faults => cur.resp.status = 500
            /\ (~id.err /\ id.val >= 1 /\ ~cur.faults /\ rows # {})
                  => /\ cur.resp.status = 200
                     /\ \E r \in rows : cur.resp.body = MarshalBook(r)

C6_Witness ==
    /\ prev.method = "GET /books/{id}"
    /\ prev.path = <<"3">>
    /\ prev.resp.status = 404
    /\ cur.method = "GET /books/{id}"
    /\ cur.path = <<"1">>
    /\ cur.resp.status = 200

\* an exchange completes in this step
Completes == cur'.idx # cur.idx

\* C7: a PUT /books/{id} with a valid payload, for an id that has no row, is
\* answered 404 (unless the store call fails), and the rows of the store are
\* the same after the request as before it.
C7_PutMissing404 ==
    [][ ( /\ Completes
          /\ cur'.method = "PUT /books/{id}"
          /\ PayloadValid(cur'.body)
          /\ RowsWithId(table, PathId(cur'.path)) = {}
          /\ ~cur'.faults )
            => /\ cur'.resp.status = 404
               /\ table' = table ]_vars

C7_Witness ==
    /\ cur.method = "PUT /books/{id}"
    /\ cur.path = <<"3">>
    /\ PayloadValid(cur.body)
    /\ cur.resp.status = 404
    /\ RowsWithId(table, 3) = {}

\* C8 (Update idempotence): a PUT /books/{id} with a valid payload for an id
\* that has a row is answered 200 unless a store call fails; and when two
\* PUTs of the same id and payload succeed one another, the second beginning
\* after the first was answered, with no other request's write between the
\* first one's UPDATE and the second one's answer, both are answered 200 with
\* identical bodies and the store after the second is the store after the
\* first.
C8_UpdateIdempotence ==
    /\ ( /\ cur.method = "PUT /books/{id}"
         /\ PayloadValid(cur.body)
         /\ RowsWithId(cur.table, PathId(cur.path)) # {}
         /\ ~cur.faults )
          => cur.resp.status = 200
    /\ ( /\ prev.method = "PUT /books/{id}"
         /\ cur.method = "PUT /books/{id}"
         /\ PathId(prev.path) = PathId(cur.path)
         /\ RowsWithId(prev.table, PathId(prev.path)) # {}
         /\ PayloadValid(prev.body)
         /\ cur.body = prev.body
         /\ ~prev.faults /\ ~cur.faults
         /\ prev.quiet
         /\ cur.begun >= prev.idx
         /\ cur.nw = prev.nw + 1 )
          => /\ prev.resp.status = 200
             /\ cur.resp.status = 200
             /\ cur.resp.body = prev.resp.body
             /\ cur.table = prev.table

C8_Witness ==
    /\ prev.method = "PUT /books/{id}"
    /\ cur.method = "PUT /books/{id}"
    /\ prev.path = <<"1">> /\ cur.path = <<"1">>
    /\ cur.body = prev.body
    /\ prev.resp.status = 200
    /\ cur.resp.status = 200
    /\ cur.begun >= prev.idx
    /\ cur.nw = prev.nw + 1
    /\ cur.table = prev.table

\* slot p performs its UPDATE in this step
Updates(p) == puts[p].pc = "update" /\ puts'[p].pc = "refetch"

\* the UPDATE of slot p touches the row of the URL's id and nothing else:
\* no id appears or disappears, every other row is as it was
UpdateFrame(p) ==
    /\ puts[p].book.ID = PathId(puts[p].path)
    /\ {r.ID : r \in table'} = {r.ID : r \in table}
    /\ \A r \in table : r.ID # puts[p].book.ID => r \in table'
    /\ \A r \in table' : r.ID # puts[p].book.ID => r \in table

\* the Book a PUT answered 200 returns, and the row stored under its id,
\* both have the URL's id and the payload's title, author and year
ReturnsPayload(e) ==
    /\ UnmarshalBook(e.resp.body).ID = PathId(e.path)
    /\ CarriesPayload(UnmarshalBook(e.resp.body), e.body)
    /\ \A r \in RowsWithId(e.table, PathId(e.path)) : CarriesPayload(r, e.body)

PutAnswered200 ==
    /\ Completes
    /\ cur'.method = "PUT /books/{id}"
    /\ cur'.resp.status = 200

\* C9 as claimed (Full replacement on PUT): after a successful PUT the
\* returned Book and the stored row have the URL's id and the payload's
\* fields, the id of the row never changes, every other row is unchanged.
C9_AsClaimed ==
    [][ /\ \A p \in Procs : Updates(p) => UpdateFrame(p)
        /\ PutAnswered200 => ReturnsPayload(cur') ]_vars

\* C9, amended: the UPDATE of a PUT leaves the row with the URL's id and the
\* payload's title, author and year, whatever it held, changes no id and no
\* other row; the Book returned with 200 has the URL's id, and it and the
\* stored row carry the payload's fields when no other write fell between
\* the request's UPDATE and its re-read of the row.
C9_FullReplacement ==
    [][ /\ \A p \in Procs : Updates(p) =>
              /\ UpdateFrame(p)
              /\ PayloadValid(puts[p].body)
              /\ RowsWithId(table', PathId(puts[p].path)) # {}
              /\ \A r \in RowsWithId(table', PathId(puts[p].path)) :
                    CarriesPayload(r, puts[p].body)
        /\ PutAnswered200 =>
              /\ UnmarshalBook(cur'.resp.body).ID = PathId(cur'.path)
              /\ cur'.quiet => ReturnsPayload(cur') ]_vars

C9_Witness ==
    /\ cur.method = "PUT /books/{id}"
    /\ cur.resp.status = 200
    /\ cur.path = <<"1">>
    /\ cur.quiet
    /\ UnmarshalBook(cur.resp.body) = Book(1, "Testing Go", "Gary Clarke", 2030)
    /\ Book(1, "Testing Go", "Gary Clarke", 2030) \in table
    /\ Book(2, "Designing Data-Intensive Applications", "Martin Kleppmann", 2017) \in table

\* C10 (List ordering): the books array of a GET /books answered 200 is
\* strictly ascending by id, so without a duplicate id, and holds exactly the
\* rows that were in the store when it was read.
C10_ListOrdering ==
    (cur.method = "GET /books" /\ cur.resp.status = 200) =>
        LET books == cur.resp.body["books"].a
        IN  /\ DOMAIN books = 1 .. Cardinality(cur.table)
            /\ \A i \in DOMAIN books : \A j \in DOMAIN books :
                  i < j => books[i]["id"].n < books[j]["id"].n
            /\ {books[i] : i \in DOMAIN books} = {MarshalBook(r) : r \in cur.table}

C10_Witness ==
    /\ cur.method = "GET /books"
    /\ cur.resp.status = 200
    /\ prev.method = "POST /books"
    /\ prev.resp.status = 201
    /\ Len(cur.resp.body["books"].a) = 3

\* the Books a response carries: the elements of the books array of a list,
\* the object itself for the other three endpoints
ReturnedBooks(e) ==
    IF e.method = "GET /books"
    THEN IF e.resp.body["books"].t = "arr"
         THEN {e.resp.body["books"].a[i] : i \in DOMAIN e.resp.body["books"].a}
         ELSE {}
    ELSE {e.resp.body}

Is2xx(e) == e.resp.status >= 200 /\ e.resp.status < 300

BookEndpoints ==
    {"GET /books", "GET /books/{id}", "POST /books", "PUT /books/{id}"}

\* C11 (ID positivity): every row of the books table has id >= 1, and every
\* Book in a 2xx response of GET /books, GET /books/{id}, POST /books or
\* PUT /books/{id} has id >= 1.
C11_IdPositivity ==
    /\ \A r \in table : r.ID >= 1
    /\ (cur.method \in BookEndpoints /\ Is2xx(cur)) =>
           \A b \in ReturnedBooks(cur) : "id" \in DOMAIN b /\ b["id"].n >= 1

C11_Witness ==
    /\ cur.method = "POST /books"
    /\ cur.resp.status = 201
    /\ cur.resp.body["id"].n = 3
    /\ prev.method = "GET /books"
    /\ prev.resp.status = 200
    /\ {r.ID : r \in table} = {1, 2, 3}

\* C12 (Empty list): GetAll on a table without rows returns an empty
\* sequence that is not nil, and GET /books on such a table answers 200 with
\* "books" an empty array.
C12_EmptyList ==
    /\ (call.op = "GetAll" /\ call.before = {} /\ call.err = "nil") =>
           (~call.books.nil /\ call.books.elems = <<>>)
    /\ (cur.method = "GET /books" /\ cur.table = {} /\ ~cur.faults) =>
           /\ cur.resp.status = 200
           /\ cur.resp.body["books"].t = "arr"
           /\ cur.resp.body["books"].a = <<>>

\* the demo rows as a fresh store holds them
DemoTable ==
    {Book(1, "The Go Programming Language", "Alan Donovan", 2015),
     Book(2, "Designing Data-Intensive Applications", "Martin Kleppmann", 2017)}

\* main() goes from Migrate to serving: the step that calls SeedIfEmpty
Seeds == phase = "migrated" /\ phase' = "serving"

\* C13 (Seed idempotence): SeedIfEmpty adds the two demo rows when the table
\* has no row and changes nothing otherwise; on a fresh store it leaves
\* exactly the rows with ids 1 and 2, and however often startup has run, a
\* store no request has written to holds exactly those two rows.
C13_SeedIdempotence ==
    /\ [][Seeds => /\ table # {} => (table' = table /\ seq' = seq)
                   /\ table = {} => table' = DemoTable]_vars
    /\ []((phase = "serving" /\ nw = 0) => table = DemoTable)

C13_Witness ==
    /\ seeded = "skipped"
    /\ phase = "serving"
    /\ nw = 0
    /\ table = DemoTable
    /\ seq = 2

Created(e) == e.method = "POST /books" /\ e.resp.status = 201

\* C14 (Id assignment): the id a successful POST /books returns is greater
\* than the id of every row inserted before it and names the row just
\* added, whatever id the request body carried; of two successful POSTs the
\* later one has the greater id.
C14_IdMonotonic ==
    /\ [][(Completes /\ Created(cur')) =>
             LET id == cur'.resp.body["id"].n
             IN  /\ \A r \in table : r.ID < id
                 /\ seq < id
                 /\ {r.ID : r \in table'} = {r.ID : r \in table} \cup {id}]_vars
    /\ []((Created(prev) /\ Created(cur)) =>
             prev.resp.body["id"].n < cur.resp.body["id"].n)

C14_Witness ==
    /\ Created(prev)
    /\ Created(cur)
    /\ prev.body = Body("object", ValidB)
    /\ cur.body = Body("object", ValidB)
    /\ prev.resp.body["id"].n = 3
    /\ cur.resp.body["id"].n = 4

Finished(g) == gos[g].pc \in {"fetched", "done"} /\ gos[g].err = "nil"

\* C16 (Serialized store access): at most one goroutine holds a connection,
\* so at most one store operation runs at a time; the Inserts take effect
\* one after the other (each gets its own id, every id up to the largest is
\* in the table, no write is lost); and a GetAll lists every row that was in
\* the table when the call was made.
C16_SerializedAccess ==
    /\ Cardinality(Holding) <= 1
    /\ Ids(table) = 1 .. seq
    /\ \A g \in Procs : (Finished(g) /\ gos[g].op = "Insert") =>
           /\ gos[g].saw \subseteq Ids(table)
           /\ gos[g].saw \cap gos[g].began = {}
           /\ \A h \in Procs \ {g} : (Finished(h) /\ gos[h].op = "Insert") =>
                  gos[h].saw # gos[g].saw
    /\ \A g \in Procs : (Finished(g) /\ gos[g].op = "GetAll") =>
           gos[g].began \subseteq gos[g].saw

C16_Witness ==
    /\ gos[1].pc = "running"
    /\ gos[1].op = "GetAll"
    /\ gos[2].pc = "waiting"
    /\ gos[2].op = "Insert"
    /\ Ids(table) = {1, 2, 3}

\* how many of the calls are calls of op
Count(calls, op) == Cardinality({i \in DOMAIN calls : calls[i] = op})

\* C17 (Store failure): a request to GET /books, GET /books/{id},
\* POST /books or PUT /books/{id} one of whose store calls failed with
\* anything but no-such-row is answered 500; no request calls Insert or
\* Update more than once in all, Insert only for POST, Update only for PUT.
C17_StoreFailure500 ==
    (cur.method \in BookEndpoints) =>
        /\ cur.faults => cur.resp.status = 500
        /\ Count(cur.calls, "Insert") + Count(cur.calls, "Update") <= 1
        /\ Count(cur.calls, "Insert") > 0 => cur.method = "POST /books"
        /\ Count(cur.calls, "Update") > 0 => cur.method = "PUT /books/{id}"

C17_Witness ==
    /\ prev.method = "PUT /books/{id}"
    /\ prev.faults
    /\ prev.resp.status = 500
    /\ prev.calls = <<"Get", "Update">>
    /\ cur.method = "POST /books"
    /\ cur.faults
    /\ cur.resp.status = 500
    /\ cur.calls = <<"Insert">>
    /\ table = DemoTable

\* C18 as claimed: every response the handlers produce, the 400, 404, 422
\* and 500 ones included, has Content-Type application/json.
C18_AsClaimed ==
    (cur.method # "none") => cur.resp.ctype = "application/json"

\* C18 (Content type): the responses written by writeJSON, which are the
\* 200, 201 and 422 ones, have Content-Type application/json; the 400, 404
\* and 500 ones are written by http.Error and http.NotFound and have
\* Content-Type text/plain; charset=utf-8.
C18_ContentType ==
    (cur.method # "none") =>
        /\ cur.resp.status \in {200, 201, 400, 404, 422, 500}
        /\ cur.resp.status \in {200, 201, 422} => cur.resp.ctype = "application/json"
        /\ cur.resp.status \in {400, 404, 500} =>
               cur.resp.ctype = "text/plain; charset=utf-8"

C18_Witness ==
    /\ prev.method = "POST /books"
    /\ prev.resp.status = 422
    /\ prev.resp.ctype = "application/json"
    /\ cur.method = "GET /books/{id}"
    /\ cur.resp.status = 404
    /\ cur.resp.ctype = "text/plain; charset=utf-8"

\* C19 (Get): BookStore.Get with id < 1 returns sql.ErrNoRows and sends no
\* query, whatever the table holds and whether or not the store would have
\* answered; with id >= 1 and the query answered, it returns the row of the
\* table with that id when there is one, and sql.ErrNoRows when there is none.
C19_GetById ==
    (call.op = "Get") =>
        /\ call.id < 1 => (call.err = "ErrNoRows" /\ ~call.queried)
        /\ (call.id >= 1 /\ call.err # "error") =>
               /\ call.queried
               /\ call.id \in Ids(call.before) =>
                      (call.err = "nil" /\ call.book \in call.before
                       /\ call.book.ID = call.id)
               /\ call.id \notin Ids(call.before) => call.err = "ErrNoRows"

C19_Witness ==
    /\ call.op = "Get"
    /\ call.id = 0
    /\ call.err = "ErrNoRows"
    /\ ~call.queried
    /\ Cardinality(call.before) = 3

\* a write answered 400 or 422, or 404 because the id of the path does not
\* parse or is below 1
Rejected(e) ==
    /\ e.method \in {"POST /books", "PUT /books/{id}"}
    /\ \/ e.resp.status \in {400, 422}
       \/ e.resp.status = 404 /\ PathId(e.path) < 1

\* C20 (Rejected writes): a POST or PUT that is rejected made no store call
\* and its step leaves the table and the id counter as they were; a PUT with
\* an id >= 1 and a decodable payload that breaks a rule is answered 422
\* without a look at the store, so whether or not a row has that id.
C20_RejectedWrites ==
    [][Completes =>
         /\ Rejected(cur') =>
                (cur'.calls = NoCalls /\ table' = table /\ seq' = seq)
         /\ ( /\ cur'.method = "PUT /books/{id}"
              /\ PathId(cur'.path) >= 1
              /\ cur'.body.kind = "object"
              /\ ~Decode(cur'.body).err
              /\ ~PayloadValid(cur'.body) ) =>
                (cur'.resp.status = 422 /\ cur'.calls = NoCalls)]_vars

C20_Witness ==
    /\ prev.method = "PUT /books/{id}"
    /\ prev.path = <<"3">>
    /\ prev.body = Body("object", EmptyMap)
    /\ prev.resp.status = 422
    /\ prev.calls = NoCalls
    /\ cur.method = "PUT /books/{id}"
    /\ cur.path = <<"1">>
    /\ cur.body = Body("object", Put(ValidA, "year", JNum(0)))
    /\ cur.resp.status = 422
    /\ cur.calls = NoCalls
    /\ table = DemoTable

\* row r holds title, author and year as one source wrote them together: a
\* demo row of the seed, or the payload of one request
WholeRow(r) ==
    \/ \E i \in DOMAIN SeedRows :
          /\ r.Title = SeedRows[i].Title
          /\ r.Author = SeedRows[i].Author
          /\ r.Year = SeedRows[i].Year
    \/ \E body \in Bodies : PayloadValid(body) /\ CarriesPayload(r, body)

\* the last two exchanges are PUTs of different valid payloads to the same
\* existing id that ran at the same time (the later one began before the
\* earlier one was answered), no store call of either failed, and their two
\* UPDATEs are the only writes requests have made
ConcurrentPuts ==
    /\ prev.method = "PUT /books/{id}"
    /\ cur.method = "PUT /books/{id}"
    /\ prev.path = cur.path
    /\ PathId(cur.path) >= 1
    /\ RowsWithId(prev.table, PathId(cur.path)) # {}
    /\ PayloadValid(prev.body)
    /\ PayloadValid(cur.body)
    /\ prev.body # cur.body
    /\ cur.begun < prev.idx
    /\ ~prev.faults
    /\ ~cur.faults
    /\ cur.nw = 2

\* C21 (Concurrent PUTs): every row of the table holds the title, author
\* and year of one source, never fields of different requests; and when two
\* PUTs of different valid payloads to the same existing id run at the same
\* time, both are answered 200 and the row then stored carries all three
\* fields of one of the two payloads.
C21_NoMixedFields ==
    /\ \A r \in table : WholeRow(r)
    /\ ConcurrentPuts =>
           /\ prev.resp.status = 200
           /\ cur.resp.status = 200
           /\ \A r \in RowsWithId(cur.table, PathId(cur.path)) :
                  CarriesPayload(r, prev.body) \/ CarriesPayload(r, cur.body)

C21_Witness ==
    /\ ConcurrentPuts
    /\ cur.path = <<"1">>
    /\ prev.body = Body("object", ValidA)
    /\ cur.body = Body("object", ValidB)
    /\ ~cur.quiet
    /\ Book(1, "Testing Go", "Gary Clarke", 2030) \in cur.table
    /\ UnmarshalBook(cur.resp.body) = Book(1, "Testing Go", "Gary Clarke", 2030)

====
